---- MODULE Spec2Model ----
(***************************************************************************)
(* Student Distribution Tool (streamlit_app.py): the capacity table, the   *)
(* greedy assignment of every student to one sub-group G1..G3 per seminar  *)
(* and the per-student summary built from the sub-group rosters.           *)
(*                                                                         *)
(* A seminar choice and a sub-group key are strings the program formats    *)
(* and parses (f"{curso}-G{g}", split('-'), split('-G'), startswith), so   *)
(* they are modelled as sequences of one-character strings and every such  *)
(* operation is computed on the characters.  NOMBRE and GROUP are only     *)
(* copied and compared for equality; they are plain strings.               *)
(***************************************************************************)
EXTENDS Integers, Sequences, FiniteSets, TLC

VARIABLES data, pc, max_students_per_group, subgrupos, data_shuffled,
          results, g_combos, student_assignments

vars == <<data, pc, max_students_per_group, subgrupos, data_shuffled,
          results, g_combos, student_assignments>>

-----------------------------------------------------------------------------
(* Strings *)

\* Code points of the characters used, the order Python compares str by.
Ord ==
  ("-" :> 45) @@ ("1" :> 49) @@ ("2" :> 50) @@ ("3" :> 51) @@ ("A" :> 65)
  @@ ("B" :> 66) @@ ("C" :> 67) @@ ("E" :> 69) @@ ("F" :> 70) @@ ("G" :> 71)
  @@ ("N" :> 78) @@ ("O" :> 79) @@ ("S" :> 83)

\* a < b on Python str: lexicographic by code point, a proper prefix first.
StrLess(a, b) ==
  LET n == IF Len(a) < Len(b) THEN Len(a) ELSE Len(b)
      d == {k \in 1..n : a[k] # b[k]}
  IN  IF d = {} THEN Len(a) < Len(b)
      ELSE LET k == CHOOSE j \in d : \A m \in d : j <= m
           IN  Ord[a[k]] < Ord[b[k]]

\* s.startswith(p)
StartsWith(s, p) ==
  /\ Len(p) <= Len(s)
  /\ \A k \in 1..Len(p) : s[k] = p[k]

\* s.find(sep): the least index at which sep occurs in s, 0 when it does not.
Find(s, sep) ==
  LET hits == {k \in 1..(Len(s) - Len(sep) + 1) :
                 \A j \in 1..Len(sep) : s[k + j - 1] = sep[j]}
  IN  IF hits = {} THEN 0 ELSE CHOOSE k \in hits : \A m \in hits : k <= m

\* s.split(sep)[0]: what precedes the first sep (all of s without a sep).
SplitHead(s, sep) ==
  LET p == Find(s, sep)
  IN  IF p = 0 THEN s ELSE SubSeq(s, 1, p - 1)

\* s.split(sep)[1], for an s that holds sep: what lies between the first
\* sep and the next one (or the end of s).
SplitSecond(s, sep) ==
  LET p == Find(s, sep)
      rest == SubSeq(s, p + Len(sep), Len(s))
  IN  SplitHead(rest, sep)

\* str(g) for a sub-group number.
Digit(g) == CASE g = 1 -> "1" [] g = 2 -> "2" [] g = 3 -> "3"

\* f"{curso}-G{g}"
GroupKey(curso, g) == curso \o <<"-", "G", Digit(g)>>

\* d.get(k, default)
Get(d, k, default) == IF k \in DOMAIN d THEN d[k] ELSE default

-----------------------------------------------------------------------------
(* Capacity table and sub-groups *)

Columns == <<"CN", "CS", "CF">>

\* data[column].unique()
Unique(rows, column) == {rows[k][column] : k \in DOMAIN rows}

\* (data[column] == choice).sum()
ChoiceCount(rows, column, choice) ==
  Cardinality({k \in DOMAIN rows : rows[k][column] = choice})

\* The body of "for column in [...]": every choice of the column gets
\* (choice_count + 2) // 3, overwriting an entry an earlier column made.
PlanColumn(table, rows, column) ==
  [choice \in DOMAIN table \cup Unique(rows, column) |->
     IF choice \in Unique(rows, column)
     THEN (ChoiceCount(rows, column, choice) + 2) \div 3
     ELSE table[choice]]

CapacityTable(rows) ==
  PlanColumn(PlanColumn(PlanColumn(<<>>, rows, Columns[1]),
                        rows, Columns[2]),
             rows, Columns[3])

Cursos(rows) ==
  Unique(rows, "CN") \cup Unique(rows, "CS") \cup Unique(rows, "CF")

\* sorted(...) of the choices, duplicates merged (they make one dict key).
RECURSIVE SortedCursos(_)
SortedCursos(S) ==
  IF S = {} THEN <<>>
  ELSE LET m == CHOOSE x \in S : \A y \in S : x = y \/ StrLess(x, y)
       IN  <<m>> \o SortedCursos(S \ {m})

\* The keys of subgrupos in insertion order, the order .items() yields.
GroupOrder(rows) ==
  LET cs == SortedCursos(Cursos(rows))
  IN  [k \in 1..(3 * Len(cs)) |->
         GroupKey(cs[((k - 1) \div 3) + 1], ((k - 1) % 3) + 1)]

EmptySubgrupos(rows) ==
  [gk \in {GroupKey(c, g) : c \in Cursos(rows), g \in 1..3} |-> <<>>]

-----------------------------------------------------------------------------
(* asignar_subgrupos *)

FallbackCapacity == 21

posibles_g ==
  <<<<1, 2, 3>>, <<1, 3, 2>>, <<2, 1, 3>>, <<2, 3, 1>>, <<3, 1, 2>>,
    <<3, 2, 1>>>>

\* The outcomes of random.shuffle(posibles_g): positions 1..6 in any order.
Shuffles == Permutations(1..Len(posibles_g))

\* Variant: the CS key is formed with g_combo[0], the index of the CN key.
GrupoKeysOneIndex(row, g_combo) ==
  <<GroupKey(row.CN, g_combo[1]), GroupKey(row.CS, g_combo[1]),
    GroupKey(row.CF, g_combo[3])>>

GrupoKeys(row, g_combo) ==
  <<GroupKey(row.CN, g_combo[1]), GroupKey(row.CS, g_combo[2]),
    GroupKey(row.CF, g_combo[3])>>

\* The sort key: the three lengths added up, read from the live subgrupos.
Occupancy(subg, row, g_combo) ==
  LET gks == GrupoKeys(row, g_combo)
  IN  Len(subg[gks[1]]) + Len(subg[gks[2]]) + Len(subg[gks[3]])

\* Variant: the test leaves one place of every group unused.
HasSpaceOffByOne(subg, table, gk) ==
  Len(subg[gk]) + 1 < Get(table, SplitHead(gk, <<"-">>), FallbackCapacity)

HasSpace(subg, table, gk) ==
  Len(subg[gk]) < Get(table, SplitHead(gk, <<"-">>), FallbackCapacity)

AllHaveSpace(subg, table, row, g_combo) ==
  \A t \in 1..3 : HasSpace(subg, table, GrupoKeys(row, g_combo)[t])

\* Variant: the roster is assigned instead of appended to.
PutOverwrite(subg, gk, entry) == [subg EXCEPT ![gk] = <<entry>>]

\* subgrupos[gk].append((student_name, student_group))
Put(subg, gk, entry) == [subg EXCEPT ![gk] = Append(@, entry)]

\* Variant: the loop over grupo_keys stops before the CF group.
SeatTwoGroups(subg, row, g_combo) ==
  LET gks == GrupoKeys(row, g_combo)
      entry == <<row.NOMBRE, row.GROUP>>
  IN  Put(Put(subg, gks[1], entry), gks[2], entry)

Seat(subg, row, g_combo) ==
  LET gks == GrupoKeys(row, g_combo)
      entry == <<row.NOMBRE, row.GROUP>>
  IN  Put(Put(Put(subg, gks[1], entry), gks[2], entry), gks[3], entry)

\* The sort key of every position of posibles_g, as the lambda computes it.
ComboKeys(subg, row) ==
  [c \in 1..Len(posibles_g) |-> Occupancy(subg, row, posibles_g[c])]

\* The "if all(...)" test of every position of posibles_g.
ComboSpace(subg, table, row) ==
  [c \in 1..Len(posibles_g) |-> AllHaveSpace(subg, table, row, posibles_g[c])]

\* posibles_g after random.shuffle gave the order sh and list.sort (stable)
\* reordered it by the occupancy key: positions into posibles_g.
SortedCombos(sh, key) == SortSeq(sh, LAMBDA a, b : key[a] < key[b])

\* The "for g_combo in posibles_g" scan from position k of the sorted list:
\* the position in posibles_g of the first combination with space
\* everywhere, 0 if the list runs out.
RECURSIVE ScanCombos(_, _, _)
ScanCombos(sorted, space, k) ==
  IF k > Len(sorted) THEN 0
  ELSE IF space[sorted[k]] THEN sorted[k]
  ELSE ScanCombos(sorted, space, k + 1)

FirstFit(sorted, space) == ScanCombos(sorted, space, 1)

\* Variant: a student no combination takes stays in the CN group tried
\* first, and the call still returns False.
asignar_sin_comprobar(subg, row, c) ==
  IF c = 0
  THEN [result |-> FALSE,
        subgrupos |-> Put(subg, GroupKey(row.CN, posibles_g[1][1]),
                          <<row.NOMBRE, row.GROUP>>),
        g_combo |-> <<>>]
  ELSE [result |-> TRUE, subgrupos |-> Seat(subg, row, posibles_g[c]),
        g_combo |-> posibles_g[c]]

\* One call, given the position c the scan stopped at (0: it ran out).
asignar_subgrupos(subg, row, c) ==
  IF c = 0
  THEN [result |-> FALSE, subgrupos |-> subg, g_combo |-> <<>>]
  ELSE [result |-> TRUE, subgrupos |-> Seat(subg, row, posibles_g[c]),
        g_combo |-> posibles_g[c]]

-----------------------------------------------------------------------------
(* Summary *)

\* The loop over subgrupos.items() for one student, from position k on:
\* every group holding the student's name sets one of the three fields.
RECURSIVE ScanGroups(_, _, _, _, _)
ScanGroups(order, subg, row, k, acc) ==
  IF k > Len(order) THEN acc
  ELSE LET group_name == order[k]
           student_names == {subg[group_name][j][1] :
                               j \in DOMAIN subg[group_name]}
           g_number == SplitSecond(group_name, <<"-", "G">>)
           next ==
             IF row.NOMBRE \notin student_names THEN acc
             ELSE IF StartsWith(group_name, row.CN)
                  THEN [acc EXCEPT !.CN_GRUPO = g_number]
             ELSE IF StartsWith(group_name, row.CS)
                  THEN [acc EXCEPT !.CS_GRUPO = g_number]
             ELSE IF StartsWith(group_name, row.CF)
                  THEN [acc EXCEPT !.CF_GRUPO = g_number]
             ELSE acc
       IN  ScanGroups(order, subg, row, k + 1, next)

SummaryRow(order, subg, row) ==
  ScanGroups(order, subg, row, 1,
             [NOMBRE |-> row.NOMBRE, GROUP |-> row.GROUP,
              CN_ELECCION |-> row.CN, CN_GRUPO |-> <<>>,
              CS_ELECCION |-> row.CS, CS_GRUPO |-> <<>>,
              CF_ELECCION |-> row.CF, CF_GRUPO |-> <<>>])

-----------------------------------------------------------------------------
(* Inputs *)

CN1 == <<"C", "N", "1">>
CN2 == <<"C", "N", "2">>
CS1 == <<"C", "S", "1">>
CS2 == <<"C", "S", "2">>
CF1 == <<"C", "F", "1">>
CF2 == <<"C", "F", "2">>
CN_1 == <<"C", "N", "-", "1">>
ECO == <<"E", "C", "O">>
ECON == <<"E", "C", "O", "N">>

Student(nombre, group, cn, cs, cf) ==
  [NOMBRE |-> nombre, GROUP |-> group, CN |-> cn, CS |-> cs, CF |-> cf]

MaxStudents == 3

\* The rows a general batch is made of; a batch may repeat a row.
RowPool ==
  {Student("ANA", "11A", CN1, CS1, CF1),
   Student("LUIS", "11B", CN2, CS1, CF1),
   Student("EVA", "11C", CN1, CS1, CF1)}

\* A seminar label with a hyphen in it.
HyphenBatch ==
  <<Student("ANA", "11A", CN_1, CS1, CF1),
    Student("LUIS", "11B", CN2, CS2, CF1),
    Student("EVA", "11C", CN2, CS1, CF2),
    Student("JOSE", "11A", CN_1, CS2, CF2)>>

\* One label used in two columns: CN1 is the CS value of the last row.
SharedLabelBatch ==
  <<Student("ANA", "11A", CN1, CS1, CF1),
    Student("LUIS", "11B", CN1, CS1, CF1),
    Student("EVA", "11C", CN1, CS1, CF1),
    Student("JOSE", "11A", CN2, CN1, CF1)>>

\* A CN label that is the beginning of the same student's CS label.
PrefixBatch == <<Student("ANA", "11A", ECO, ECON, CF1)>>

LabelBatches == {HyphenBatch, SharedLabelBatch, PrefixBatch}

\* The batch of the example: six students with the same three choices.
\* NOMBRE need not be unique in a file; the rows repeat in pairs, which
\* leaves data.sample 90 distinguishable orders instead of 720.
ExampleBatch ==
  <<Student("ANA", "11A", CN1, CS1, CF1), Student("ANA", "11A", CN1, CS1, CF1),
    Student("LUIS", "11B", CN1, CS1, CF1), Student("LUIS", "11B", CN1, CS1, CF1),
    Student("EVA", "11C", CN1, CS1, CF1), Student("EVA", "11C", CN1, CS1, CF1)>>

Batches(pool, n) == UNION {[1..m -> pool] : m \in 0..n}

-----------------------------------------------------------------------------
(* The run *)

InitWith(batches) ==
  /\ data \in batches
  /\ pc = "uploaded"
  /\ max_students_per_group = <<>>
  /\ subgrupos = <<>>
  /\ data_shuffled = <<>>
  /\ results = <<>>
  /\ g_combos = <<>>
  /\ student_assignments = <<>>

Init == InitWith(Batches(RowPool, MaxStudents) \cup LabelBatches)

InitExample == InitWith({ExampleBatch})

\* "Process Student Assignments" up to the loop: the capacity table, the
\* empty sub-groups and data.sample(frac=1), any order of the rows.
Process ==
  /\ pc = "uploaded"
  /\ max_students_per_group' = CapacityTable(data)
  /\ subgrupos' = EmptySubgrupos(data)
  /\ \E orden \in Permutations(DOMAIN data) :
       data_shuffled' = [k \in DOMAIN data |-> data[orden[k]]]
  /\ results' = <<>>
  /\ g_combos' = <<>>
  /\ pc' = "assign"
  /\ UNCHANGED <<data, student_assignments>>

\* One iteration of "for i, (_, row) in enumerate(data_shuffled.iterrows())".
AssignStudent ==
  /\ pc = "assign"
  /\ Len(results) < Len(data_shuffled)
  /\ LET row == data_shuffled[Len(results) + 1]
     IN  \E key \in {ComboKeys(subgrupos, row)},
            space \in {ComboSpace(subgrupos, max_students_per_group, row)} :
           \E c \in {FirstFit(SortedCombos(sh, key), space) : sh \in Shuffles} :
             LET r == asignar_subgrupos(subgrupos, row, c)
             IN  /\ subgrupos' = r.subgrupos
                 /\ results' = Append(results, r.result)
                 /\ g_combos' = Append(g_combos, r.g_combo)
  /\ UNCHANGED <<data, pc, max_students_per_group, data_shuffled,
                 student_assignments>>

\* After the loop: one summary row per row of the original data.
Aggregate ==
  /\ pc = "assign"
  /\ Len(results) = Len(data_shuffled)
  /\ student_assignments' =
       [k \in DOMAIN data |-> SummaryRow(GroupOrder(data), subgrupos, data[k])]
  /\ pc' = "done"
  /\ UNCHANGED <<data, max_students_per_group, subgrupos, data_shuffled,
                 results, g_combos>>

Next == Process \/ AssignStudent \/ Aggregate

Spec == Init /\ [][Next]_vars

SpecExample == InitExample /\ [][Next]_vars

-----------------------------------------------------------------------------
(* Vocabulary of the properties *)

Slots == {1, 2, 3}

\* The six ways to give the three tracks pairwise different slot numbers.
SlotPermutations ==
  {p \in Slots \X Slots \X Slots : p[1] # p[2] /\ p[2] # p[3] /\ p[1] # p[3]}

Running == pc \in {"assign", "done"}

\* The capacity of a choice value: its entry of the capacity table, the
\* fallback for a value the table does not hold.
TableCapacity(v) == Get(max_students_per_group, v, FallbackCapacity)

OccupancyOf(v, g) == Len(subgrupos[GroupKey(v, g)])

ChoiceSet(row) == {row.CN, row.CS, row.CF}

\* The number of students of the batch who chose v.
Choosers(rows, v) == Cardinality({k \in DOMAIN rows : v \in ChoiceSet(rows[k])})

\* ceil(n / 3), by its definition.
CeilThird(n) == CHOOSE c \in 0..n : 3 * c >= n /\ 3 * c < n + 3

\* No choice string is used in two track columns.
UniqueAcrossTracks(rows) ==
  /\ Unique(rows, "CN") \cap Unique(rows, "CS") = {}
  /\ Unique(rows, "CN") \cap Unique(rows, "CF") = {}
  /\ Unique(rows, "CS") \cap Unique(rows, "CF") = {}

\* The step just taken processed one student.
StudentStep == pc = "assign" /\ Len(results') = Len(results) + 1

CurrentRow == data_shuffled[Len(results) + 1]

\* The sub-groups whose roster the step changed.
ChangedGroups == {gk \in DOMAIN subgrupos : subgrupos'[gk] # subgrupos[gk]}

SeatedCount == Cardinality({k \in DOMAIN results : results[k]})

-----------------------------------------------------------------------------
(* Properties *)

\* C1: at every moment of a run, every sub-group (choice value, slot) holds
\* at most capacity(choice value) students, the capacity being the table
\* entry of the literal choice string (21 only for a value not in the table).
C1_OccupancyWithinCapacity ==
  Running =>
    \A v \in Cursos(data) : \A g \in Slots : OccupancyOf(v, g) <= TableCapacity(v)

\* C2: a student the engine seats enters exactly three sub-groups, one per
\* track, whose slot numbers are pairwise distinct (a permutation of 1,2,3).
C2_DistinctSlots ==
  [][(StudentStep /\ results'[Len(results')]) =>
       \E p \in SlotPermutations :
         /\ ChangedGroups = {GroupKey(CurrentRow.CN, p[1]),
                             GroupKey(CurrentRow.CS, p[2]),
                             GroupKey(CurrentRow.CF, p[3])}
         /\ Cardinality(ChangedGroups) = 3
         /\ {gk[Len(gk)] : gk \in ChangedGroups} = {"1", "2", "3"}]_vars

\* C2 witness: two students seated, with different combinations.
C2_Witness ==
  /\ pc = "assign"
  /\ Len(results) = 2
  /\ results[1] /\ results[2]
  /\ g_combos[1] # g_combos[2]

\* C3: the table entry of every choice value is ceil(N/3) for the N
\* students choosing the value, so three slots of that capacity hold them.
C3_CapacityIsCeilThird ==
  Running =>
    \A v \in Cursos(data) :
      /\ v \in DOMAIN max_students_per_group
      /\ max_students_per_group[v] = CeilThird(Choosers(data, v))
      /\ 3 * max_students_per_group[v] >= Choosers(data, v)

\* The slot field the summary is to show for a seated slot number.
SlotField(g) == <<Digit(g)>>

\* Row j of the summary is the student of row j of the input, with the
\* slots of the outcome at position k of the processing order.
SummaryMatches(j, k) ==
  LET row == data[j]
      out == student_assignments[j]
  IN  /\ out.NOMBRE = row.NOMBRE /\ out.GROUP = row.GROUP
      /\ out.CN_ELECCION = row.CN /\ out.CS_ELECCION = row.CS
      /\ out.CF_ELECCION = row.CF
      /\ IF results[k]
         THEN /\ out.CN_GRUPO = SlotField(g_combos[k][1])
              /\ out.CS_GRUPO = SlotField(g_combos[k][2])
              /\ out.CF_GRUPO = SlotField(g_combos[k][3])
         ELSE out.CN_GRUPO = <<>> /\ out.CS_GRUPO = <<>> /\ out.CF_GRUPO = <<>>

\* C4: the summary has one row per input student in input order, each slot
\* field being the slot the engine seated the student into for that track,
\* all three empty for an unseated student.  (Rows that are equal may be
\* attributed to each other's processing position.)
C4_SummaryMatchesSeating ==
  pc = "done" =>
    /\ Len(student_assignments) = Len(data)
    /\ \E orden \in Permutations(DOMAIN data) :
         /\ \A k \in DOMAIN data : data_shuffled[k] = data[orden[k]]
         /\ \A k \in DOMAIN data : SummaryMatches(orden[k], k)

\* C5: processing one student either appends the student to the three
\* sub-groups of one combination (one per track) and returns True, or
\* returns False and leaves every roster as it was.
C5_AllOrNothing ==
  [][StudentStep =>
       LET entry == <<CurrentRow.NOMBRE, CurrentRow.GROUP>>
       IN  \/ /\ results' = Append(results, TRUE)
              /\ Cardinality(ChangedGroups) = 3
              /\ \A gk \in ChangedGroups :
                   subgrupos'[gk] = Append(subgrupos[gk], entry)
              /\ \E x, y, z \in Slots :
                   ChangedGroups = {GroupKey(CurrentRow.CN, x),
                                    GroupKey(CurrentRow.CS, y),
                                    GroupKey(CurrentRow.CF, z)}
           \/ /\ results' = Append(results, FALSE)
              /\ subgrupos' = subgrupos]_vars

\* C5 witness: a run in which one student was seated and a later one was not.
C5_Witness ==
  /\ pc = "assign"
  /\ \E j, k \in DOMAIN results : j < k /\ results[j] /\ ~results[k]

\* C7: the six students of the example get capacity 2 for each of their
\* three values, all six are seated, and the run ends with exactly two
\* students in each of the nine sub-groups.
C7_ExampleSeatsAll ==
  (data = ExampleBatch /\ Running) =>
    /\ \A v \in {CN1, CS1, CF1} : max_students_per_group[v] = 2
    /\ \A k \in DOMAIN results : results[k]
    /\ pc = "done" =>
         /\ Len(results) = 6
         /\ DOMAIN subgrupos = {GroupKey(v, g) : v \in {CN1, CS1, CF1}, g \in Slots}
         /\ \A v \in {CN1, CS1, CF1} : \A g \in Slots : OccupancyOf(v, g) = 2

\* C7 witness: the example batch, run to the end.
C7_Witness ==
  /\ data = ExampleBatch
  /\ pc = "done"
  /\ SeatedCount = 6

\* Every target of the combination p is strictly below its capacity.
HasRoom(row, p) ==
  /\ OccupancyOf(row.CN, p[1]) < TableCapacity(row.CN)
  /\ OccupancyOf(row.CS, p[2]) < TableCapacity(row.CS)
  /\ OccupancyOf(row.CF, p[3]) < TableCapacity(row.CF)

OccupancySum(row, p) ==
  OccupancyOf(row.CN, p[1]) + OccupancyOf(row.CS, p[2]) + OccupancyOf(row.CF, p[3])

\* C8: a seated student's combination had room in all three targets and
\* the least current occupancy sum of all combinations with room; a student
\* is unseated only when no combination had room.
C8_LeastLoadedWithRoom ==
  [][StudentStep =>
       IF results'[Len(results')]
       THEN \E p \in SlotPermutations :
              /\ g_combos'[Len(results')] = p
              /\ ChangedGroups = {GroupKey(CurrentRow.CN, p[1]),
                                  GroupKey(CurrentRow.CS, p[2]),
                                  GroupKey(CurrentRow.CF, p[3])}
              /\ HasRoom(CurrentRow, p)
              /\ \A q \in SlotPermutations :
                   HasRoom(CurrentRow, q) =>
                     OccupancySum(CurrentRow, p) <= OccupancySum(CurrentRow, q)
       ELSE \A q \in SlotPermutations : ~HasRoom(CurrentRow, q)]_vars

\* Some way to give every student of the batch a combination keeps every
\* sub-group within its capacity.
RECURSIVE Load(_, _, _, _)
Load(rows, f, gk, k) ==
  IF k = 0 THEN 0
  ELSE Load(rows, f, gk, k - 1)
       + Cardinality({t \in 1..3 :
                        GroupKey(rows[k][Columns[t]], f[k][t]) = gk})

CanSeatAll(rows) ==
  \E f \in [DOMAIN rows -> SlotPermutations] :
    \A v \in Cursos(rows) : \A g \in Slots :
      Load(rows, f, GroupKey(v, g), Len(rows)) <= TableCapacity(v)

\* C9: a seated student is never moved: every roster only grows at its end.
\* (The witness is a run that leaves a student unseated on a batch, with
\* unique choice strings, that has a complete seating.)
C9_NeverMoved ==
  [][\A gk \in DOMAIN subgrupos :
       /\ gk \in DOMAIN subgrupos'
       /\ Len(subgrupos'[gk]) >= Len(subgrupos[gk])
       /\ SubSeq(subgrupos'[gk], 1, Len(subgrupos[gk])) = subgrupos[gk]]_vars

C9_Witness ==
  /\ pc = "done"
  /\ UniqueAcrossTracks(data)
  /\ \A j, k \in DOMAIN data : j # k => data[j].NOMBRE # data[k].NOMBRE
  /\ \E k \in DOMAIN results : ~results[k]
  /\ \A v \in Cursos(data) : max_students_per_group[v] = CeilThird(Choosers(data, v))
  /\ CanSeatAll(data)

\* The processed students who were seated, are (nombre, group) and chose v.
SeatedWith(entry, v) ==
  Cardinality({k \in DOMAIN results :
                 /\ results[k]
                 /\ <<data_shuffled[k].NOMBRE, data_shuffled[k].GROUP>> = entry
                 /\ v \in ChoiceSet(data_shuffled[k])})

\* The places of the three rosters of v that hold (nombre, group).
PlacesOf(entry, v) ==
  Cardinality({<<g, j>> \in Slots \X (1..Len(data)) :
                 /\ j <= OccupancyOf(v, g)
                 /\ subgrupos[GroupKey(v, g)][j] = entry})

RECURSIVE TotalOccupancy(_)
TotalOccupancy(S) ==
  IF S = {} THEN 0
  ELSE LET gk == CHOOSE x \in S : TRUE
       IN  Len(subgrupos[gk]) + TotalOccupancy(S \ {gk})

\* C10: with choice strings unique across tracks, the rosters hold each
\* seated student once per chosen value and nobody else: per value the
\* three occupancies add up to the seated students who chose it, and all
\* occupancies add up to three times the number of seated students.
C10_MembershipAccounting ==
  (Running /\ UniqueAcrossTracks(data)) =>
    /\ DOMAIN subgrupos = {GroupKey(v, g) : v \in Cursos(data), g \in Slots}
    /\ \A v \in Cursos(data) :
         /\ OccupancyOf(v, 1) + OccupancyOf(v, 2) + OccupancyOf(v, 3)
              = Cardinality({k \in DOMAIN results :
                               results[k] /\ v \in ChoiceSet(data_shuffled[k])})
         /\ \A g \in Slots : OccupancyOf(v, g) <= Len(data)
         /\ \A k \in DOMAIN data :
              LET entry == <<data[k].NOMBRE, data[k].GROUP>>
              IN  PlacesOf(entry, v) = SeatedWith(entry, v)
    /\ TotalOccupancy(DOMAIN subgrupos) = 3 * SeatedCount

\* C10 witness: a finished run on unique choice strings with a seated and
\* an unseated student.
C10_Witness ==
  /\ pc = "done"
  /\ UniqueAcrossTracks(data)
  /\ SeatedCount >= 2
  /\ SeatedCount < Len(results)

====
